---- MODULE Spec2Model ----
\* Model of src/cmd.py: the batch subtitle generator (main, process_file,
\* convert_to_wav, write_srt) and the segment text cleaning and filtering.
\*
\* Characters are one-character strings; a character outside ASCII is written
\* by its code point (U+FF0C is the full-width comma), and so is the
\* backquote (U+0060), which a TLA+ string cannot hold. A text is a
\* sequence of characters. Seconds are counted in ticks of 1/10000 s, so that the
\* truncation to milliseconds is visible.
EXTENDS Integers, Sequences, FiniteSets, TLC

VARIABLES
    args,           \* the argument list handed to main
    pc,             \* position of the single thread of control
    exit,           \* how main ended: "running", "return", "sysexit1", "raised"
    file_no,        \* position in input_files of the file being processed
    wav_file,       \* process_file's local wav_file (None or a temp path)
    wav_file_path,  \* convert_to_wav's local wav_file_path
    total_duration, \* info.duration of the current transcription
    srt_content,    \* write_srt's local list of blocks
    consumed,       \* segments taken from the generator by the current write_srt
    fs_tmp,         \* temporary files that exist on disk
    fs_srt,         \* subtitle path (stem) -> file on disk
    log,            \* the records handed to the logger, in order
    calls,          \* positions for which main called process_file, in order
    tmp_of,         \* position -> temp path allocated by that call (or None)
    opened,         \* positions whose call opened its subtitle path for writing
    yielded,        \* number of segments the recognition sequences have yielded
    stages,         \* marks of the steps the current (or last) call went through
    saved_by,       \* position -> blocks that call saved (empty: none saved)
    threads,        \* disabled alternative: positions whose thread was started
    frames,         \* disabled alternative: position -> locals of its worker
    raw_text,       \* text filter run: segment.text
    text,           \* text filter run: the cleaned text
    accepted,       \* text filter run: outcome of the test at line 99
    text_pc         \* text filter run: "input" or "filtered"

vars == <<args, pc, exit, file_no, wav_file, wav_file_path, total_duration,
          srt_content, consumed, fs_tmp, fs_srt, log, calls, tmp_of, opened,
          yielded, stages, saved_by, threads, frames, raw_text, text, accepted,
          text_pc>>

pipeline_vars == <<args, pc, exit, file_no, wav_file, wav_file_path,
                   total_duration, srt_content, consumed, fs_tmp, fs_srt, log,
                   calls, tmp_of, opened, yielded, stages, saved_by>>

thread_vars == <<threads, frames>>

text_vars == <<raw_text, text, accepted, text_pc>>

None == "None"

----------------------------------------------------------------------------
\* Bounds of the model.

MaxFiles == 2       \* input files per batch
MaxSegs == 3        \* segments the recognition sequences of one run yield
MaxTextLen == 5     \* length of the enumerated raw texts
MaxThreadSegs == 1  \* segments one recognition sequence of a worker yields

----------------------------------------------------------------------------
\* Characters.

Digits == {"0", "1", "2", "3", "4", "5", "6", "7", "8", "9"}

\* What str.strip() and the whitespace escape of the pattern take for whitespace.
Whitespace == {" ", "\t", "\n", "\r", "\f"}

\* The literal characters of the class at line 99, in the order written:
\* the CJK marks, then the ASCII ones.
ClassLiterals ==
    {"U+FF0C", "U+3002", "U+3001", "U+FF1F", "U+2018", "U+2019", "U+201C",
     "U+201D", "U+FF1B", "U+FF1A", "U+FF08", "U+FF5B", "U+FF5D", "U+3010",
     "U+3011", "U+FF09",
     ":", ";", "\"", "'", " ", "U+0060", "!", "@", "#", "$", "%", "^", "&", "*",
     "(", ")", "_", "+", "=", ".", ",", "?", "/", "\\", "-"}

\* mutant: the class without its digit escape
InNoiseClassNoDigits(c) ==
    c \in ClassLiterals \/ c \in Whitespace

\* the bracket class at line 99: does it match the character c
InNoiseClass(c) ==
    c \in ClassLiterals \/ c \in Whitespace \/ c \in Digits

----------------------------------------------------------------------------
\* Text operations of write_srt, lines 96-99.

Drop(s, n) == SubSeq(s, n + 1, Len(s))

RECURSIVE LStrip(_)
LStrip(s) ==
    IF s # <<>> /\ Head(s) \in Whitespace THEN LStrip(Tail(s)) ELSE s

RECURSIVE RStrip(_)
RStrip(s) ==
    IF s # <<>> /\ s[Len(s)] \in Whitespace
    THEN RStrip(SubSeq(s, 1, Len(s) - 1))
    ELSE s

\* segment.text.strip()
Strip(s) == RStrip(LStrip(s))

Apos39 == <<"&", "#", "3", "9", ";">>

StartsWith(s, p) == Len(s) >= Len(p) /\ SubSeq(s, 1, Len(p)) = p

\* line 96, str.replace of the encoded apostrophe: leftmost occurrences, not overlapping
RECURSIVE ReplaceApos(_)
ReplaceApos(s) ==
    IF s = <<>> THEN <<>>
    ELSE IF StartsWith(s, Apos39) THEN <<"'">> \o ReplaceApos(Drop(s, 5))
    ELSE <<Head(s)>> \o ReplaceApos(Tail(s))

\* number of leading digits of s
RECURSIVE DigitRun(_)
DigitRun(s) ==
    IF s # <<>> /\ Head(s) \in Digits THEN 1 + DigitRun(Tail(s)) ELSE 0

\* length of the match of &#\d+; at the start of s, 0 when there is none
EntityLen(s) ==
    IF Len(s) >= 4 /\ s[1] = "&" /\ s[2] = "#"
    THEN LET d == DigitRun(Drop(s, 2))
         IN  IF d >= 1 /\ Len(s) >= d + 3 /\ s[d + 3] = ";" THEN d + 3 ELSE 0
    ELSE 0

\* mutant: a numeric entity is replaced by a space instead of removed
RECURSIVE SubEntitiesBySpace(_)
SubEntitiesBySpace(s) ==
    IF s = <<>> THEN <<>>
    ELSE IF EntityLen(s) > 0
         THEN <<" ">> \o SubEntitiesBySpace(Drop(s, EntityLen(s)))
         ELSE <<Head(s)>> \o SubEntitiesBySpace(Tail(s))

\* line 97, re.sub of the numeric entities by the empty string
RECURSIVE SubEntities(_)
SubEntities(s) ==
    IF s = <<>> THEN <<>>
    ELSE IF EntityLen(s) > 0 THEN SubEntities(Drop(s, EntityLen(s)))
    ELSE <<Head(s)>> \o SubEntities(Tail(s))

\* lines 96-97: the text of a segment as it is tested and emitted
CleanText(t) == SubEntities(ReplaceApos(Strip(t)))

\* length of the longest prefix of s made of class characters
RECURSIVE ClassRun(_)
ClassRun(s) ==
    IF s # <<>> /\ InNoiseClass(Head(s)) THEN 1 + ClassRun(Tail(s)) ELSE 0

\* line 99, re.match: the class repeats from the start, giving back characters
\* as needed, and the dollar matches at the end of t or before a final newline
ReMatchNoise(t) ==
    \E p \in 0..ClassRun(t) :
        \/ p = Len(t)
        \/ p = Len(t) - 1 /\ t[Len(t)] = "\n"

\* line 99: text and not re.match(...)
IsValidText(t) == t # <<>> /\ ~ReMatchNoise(t)

----------------------------------------------------------------------------
\* Inputs of the batch run.

\* An input path is a stem and an extension; two inputs may share a stem.
Paths ==
    {[stem |-> "a", ext |-> "mp3"],
     [stem |-> "a", ext |-> "mp4"],
     [stem |-> "b", ext |-> "mp3"]}

RECURSIVE SeqsUpTo(_, _)
SeqsUpTo(S, n) ==
    IF n = 0 THEN {<<>>}
    ELSE LET shorter == SeqsUpTo(S, n - 1)
         IN  shorter \cup {Append(q, x) : q \in {r \in shorter : Len(r) = n - 1}, x \in S}

NoRepeat(q) == \A m, n \in 1..Len(q) : m # n => q[m] # q[n]

\* sys.argv[1:]: nothing, the model name alone, model name and language, or
\* both followed by distinct input files
ArgLists ==
    {<<>>, <<"small">>} \cup
    {<<"small", "auto">> \o fs : fs \in {q \in SeqsUpTo(Paths, MaxFiles) : NoRepeat(q)}}

\* line 119
input_files(a) == SubSeq(a, 3, Len(a))

\* line 103: os.path.splitext(original_filename)[0] + ".srt"
srt_path(p) == [stem |-> p.stem, ext |-> "srt"]

SrtPaths == {srt_path(p) : p \in Paths}

\* A subtitle file on disk: whether it exists, and the blocks it holds (the
\* blocks joined by newlines are its content).
NoFile == [exists |-> FALSE, blocks |-> <<>>]

\* mutant: the file is opened anew for every block, so only the last stays
FileOfLastBlock(blocks) ==
    [exists |-> TRUE,
     blocks |-> IF blocks = <<>> THEN <<>> ELSE <<blocks[Len(blocks)]>>]

FileOf(blocks) == [exists |-> TRUE, blocks |-> blocks]

\* line 68: the name tempfile hands out is one that no existing file has.
\* Names are interchangeable, so the model takes the first unused one; one
\* name per call is enough even if every call leaks its file.
TmpName(k) == "tmp" \o ToString(k) \o ".wav"

fresh_tmp(existing) ==
    TmpName(CHOOSE k \in 1..MaxFiles :
                /\ TmpName(k) \notin existing
                /\ \A j \in 1..(k - 1) : TmpName(j) \in existing)

\* mutant: the path of line 72, named after the input and never used
temp_path_by_basename(existing, input_file) == input_file.stem \o ".wav"

\* lines 68-69: the path convert_to_wav works with is the allocated name; the
\* input file has no part in it
temp_path(existing, input_file) == fresh_tmp(existing)

\* ticks per second of the segment times
TicksPerSecond == 10000

Hello == <<"h", "e", "l", "l", "o">>
Dots == <<"U+3002", "U+3002", "U+3002">>

NiHao == <<"U+4F60", "U+597D">>

\* The segments a recognition sequence may yield: (0.0, 1.0, hello),
\* (1.2345, 2.5, ni hao) and an empty one at 0 with three ideographic full
\* stops.
SegPool ==
    {[start |-> 0, end |-> 10000, text |-> Hello],
     [start |-> 12345, end |-> 25000, text |-> NiHao],
     [start |-> 0, end |-> 0, text |-> Dots]}

\* info.duration: an empty audio, or 2.5 s
Durations == {0, 25000}

\* Segment invariant assumed of the collaborator: 0 <= start <= end <= duration
SegsFor(d) == {sg \in SegPool : sg.start <= sg.end /\ sg.end <= d}

----------------------------------------------------------------------------
\* Subtitle blocks, lines 94-100.

\* mutant: the milliseconds are rounded up
to_ms_ceil(t) == (t * 1000 + TicksPerSecond - 1) \div TicksPerSecond

\* int(segment.start * 1000)
to_ms(t) == (t * 1000) \div TicksPerSecond

DigitChar(d) == CHOOSE c \in Digits : c = ToString(d)

Pad2(n) == <<DigitChar((n \div 10) % 10), DigitChar(n % 10)>>
Pad3(n) == <<DigitChar((n \div 100) % 10)>> \o Pad2(n % 100)

\* tool.ms_to_time_string(ms=...): HH:MM:SS,mmm
ms_to_time_string(ms) ==
    Pad2(ms \div 3600000) \o <<":">> \o Pad2((ms \div 60000) % 60) \o <<":">>
        \o Pad2((ms \div 1000) % 60) \o <<",">> \o Pad3(ms % 1000)

\* mutant: the index is the position of the segment in the sequence
block_index_by_position(content, position) == position

\* line 100: len(srt_content) + 1
block_index(content, position) == Len(content) + 1

\* line 100: the block of a segment, given the list so far and the position
\* of the segment in the recognition sequence
make_block(content, position, sg) ==
    [index |-> block_index(content, position),
     startTime |-> ms_to_time_string(to_ms(sg.start)),
     endTime |-> ms_to_time_string(to_ms(sg.end)),
     text |-> CleanText(sg.text)]

\* mutant: the newest block is put in front of the list
prepend_if_valid(content, position, sg) ==
    IF IsValidText(CleanText(sg.text))
    THEN <<make_block(content, position, sg)>> \o content
    ELSE content

\* lines 96-100: srt_content after the segment sg
append_if_valid(content, position, sg) ==
    IF IsValidText(CleanText(sg.text))
    THEN Append(content, make_block(content, position, sg))
    ELSE content

\* mutant: the file is written whatever the list holds
has_content_always(content) == TRUE

\* line 102: if srt_content
has_content(content) == content # <<>>

----------------------------------------------------------------------------
\* Log records (the handler writes them to stdout, as print does).

LogLine(kind) == [kind |-> kind, no |-> file_no, file |-> input_files(args)[file_no]]

\* mutant: the result of ffmpeg is not looked at
ffmpeg_failed_never(rs) == FALSE

\* line 81: if rs != 'ok'
ffmpeg_failed(rs) == rs # "ok"

\* mutant: a malformed list is one without a model name and a language
usage_error_lt2(a) == Len(a) < 2

\* line 113
usage_error(a) == Len(a) < 3

----------------------------------------------------------------------------
\* main, lines 112-122.

\* lines 113-119
main_check_args ==
    /\ pc = "main_start"
    /\ IF usage_error(args)
       THEN /\ log' = Append(log, [kind |-> "usage"])
            /\ exit' = "sysexit1"
            /\ pc' = "exited"
            /\ UNCHANGED file_no
       ELSE /\ file_no' = 1
            /\ pc' = "main_loop"
            /\ UNCHANGED <<log, exit>>
    /\ UNCHANGED <<args, wav_file, wav_file_path, total_duration, srt_content,
                   consumed, fs_tmp, fs_srt, calls, tmp_of, opened>>
    /\ UNCHANGED <<thread_vars, text_vars, yielded, stages, saved_by>>

\* lines 121-122, and line 29 of the callee
main_loop ==
    /\ pc = "main_loop"
    /\ IF file_no <= Len(input_files(args))
       THEN /\ calls' = Append(calls, file_no)
            /\ wav_file' = None
            /\ pc' = "pf_model"
            /\ stages' = <<>>
            /\ UNCHANGED exit
       ELSE /\ exit' = "return"
            /\ pc' = "exited"
            /\ UNCHANGED <<calls, wav_file, stages>>
    /\ UNCHANGED <<args, file_no, wav_file_path, total_duration, srt_content,
                   consumed, fs_tmp, fs_srt, log, tmp_of, opened>>
    /\ UNCHANGED <<thread_vars, text_vars, yielded, saved_by>>

----------------------------------------------------------------------------
\* process_file, lines 28-63, with convert_to_wav and write_srt.

\* lines 32-41: the settings and the model load, then the first log line
pf_model ==
    /\ pc = "pf_model"
    /\ \E loaded \in BOOLEAN :
          IF loaded
          THEN /\ log' = Append(log, LogLine("processing"))
               /\ stages' = Append(stages, "start")
               /\ pc' = "cw_alloc"
          ELSE /\ pc' = "pf_except"
               /\ stages' = Append(stages, "model_failed")
               /\ UNCHANGED log
    /\ UNCHANGED <<args, exit, file_no, wav_file, wav_file_path, total_duration,
                   srt_content, consumed, fs_tmp, fs_srt, calls, tmp_of, opened>>
    /\ UNCHANGED <<thread_vars, text_vars, yielded, saved_by>>

\* lines 68-69: a new, uniquely named file is created and kept
cw_alloc ==
    /\ pc = "cw_alloc"
    /\ LET t == temp_path(fs_tmp, input_files(args)[file_no])
       IN  /\ fs_tmp' = fs_tmp \cup {t}
           /\ wav_file_path' = t
           /\ tmp_of' = [tmp_of EXCEPT ![file_no] = t]
    /\ pc' = "cw_ffmpeg"
    /\ UNCHANGED <<args, exit, file_no, wav_file, total_duration, srt_content,
                   consumed, fs_srt, log, calls, opened>>
    /\ UNCHANGED <<thread_vars, text_vars, yielded, stages, saved_by>>

\* lines 80-84 and the assignment of line 43
cw_ffmpeg ==
    /\ pc = "cw_ffmpeg"
    /\ \E rs \in {"ok", "error"} :
          /\ stages' = Append(stages, IF rs = "ok" THEN "normalized"
                                                   ELSE "normalize_failed")
          /\ IF ffmpeg_failed(rs)
             THEN /\ pc' = "pf_except"
                  /\ UNCHANGED wav_file
             ELSE /\ wav_file' = wav_file_path
                  /\ pc' = "pf_transcribe"
    /\ UNCHANGED <<args, exit, file_no, wav_file_path, total_duration,
                   srt_content, consumed, fs_tmp, fs_srt, log, calls, tmp_of,
                   opened>>
    /\ UNCHANGED <<thread_vars, text_vars, yielded, saved_by>>

\* lines 45-55 and 89: transcribe returns the lazy sequence and the duration,
\* or raises
pf_transcribe ==
    /\ pc = "pf_transcribe"
    /\ stages' = Append(stages, "transcribe")
    /\ \/ /\ pc' = "pf_except"
          /\ UNCHANGED <<total_duration, srt_content, consumed>>
       \/ \E d \in Durations :
             /\ total_duration' = d
             /\ srt_content' = <<>>
             /\ consumed' = <<>>
             /\ pc' = "ws_loop"
    /\ UNCHANGED <<args, exit, file_no, wav_file, wav_file_path, fs_tmp, fs_srt,
                   log, calls, tmp_of, opened>>
    /\ UNCHANGED <<thread_vars, text_vars, yielded, saved_by>>

\* lines 90-100: one turn of the loop. The sequence ends, raises, or yields a
\* segment; the division of line 91 raises when the duration is 0.
ws_loop ==
    /\ pc = "ws_loop"
    /\ \/ /\ pc' = "ws_write"
          /\ UNCHANGED <<srt_content, consumed, log, yielded>>
       \/ /\ pc' = "pf_except"
          /\ UNCHANGED <<srt_content, consumed, log, yielded>>
       \/ /\ yielded < MaxSegs
          /\ \E sg \in SegsFor(total_duration) :
                /\ consumed' = Append(consumed, sg)
                /\ yielded' = yielded + 1
                /\ IF total_duration = 0
                   THEN /\ pc' = "pf_except"
                        /\ UNCHANGED <<srt_content, log>>
                   ELSE /\ log' = Append(log,
                               [kind |-> "progress", no |-> file_no,
                                file |-> input_files(args)[file_no],
                                progress |-> <<sg.end, total_duration>>])
                        /\ srt_content' =
                               append_if_valid(srt_content, Len(consumed) + 1, sg)
                        /\ pc' = "ws_loop"
    /\ UNCHANGED <<args, exit, file_no, wav_file, wav_file_path, total_duration,
                   fs_tmp, fs_srt, calls, tmp_of, opened>>
    /\ UNCHANGED <<thread_vars, text_vars, stages, saved_by>>

\* lines 102-109: the file is written in one piece, or the opening fails, or
\* the writing fails after the file was opened (and so created or truncated)
ws_write ==
    /\ pc = "ws_write"
    /\ LET q == srt_path(input_files(args)[file_no])
       IN  IF has_content(srt_content)
           THEN \/ /\ fs_srt' = [fs_srt EXCEPT ![q] = FileOf(srt_content)]
                   /\ opened' = opened \cup {file_no}
                   /\ saved_by' = [saved_by EXCEPT ![file_no] = srt_content]
                   /\ log' = Append(log, LogLine("saved"))
                   /\ pc' = "pf_finally"
                \/ /\ pc' = "pf_except"
                   /\ UNCHANGED <<fs_srt, opened, log, saved_by>>
                \/ \E k \in 0..(Len(srt_content) - 1) :
                      /\ fs_srt' = [fs_srt EXCEPT ![q] =
                                       FileOf(SubSeq(srt_content, 1, k))]
                      /\ opened' = opened \cup {file_no}
                      /\ pc' = "pf_except"
                      /\ UNCHANGED <<log, saved_by>>
           ELSE /\ log' = Append(log, LogLine("no_valid"))
                /\ pc' = "pf_finally"
                /\ UNCHANGED <<fs_srt, opened, saved_by>>
    /\ UNCHANGED <<args, exit, file_no, wav_file, wav_file_path, total_duration,
                   srt_content, consumed, fs_tmp, calls, tmp_of>>
    /\ UNCHANGED <<thread_vars, text_vars, yielded, stages>>

\* lines 57-58
pf_except ==
    /\ pc = "pf_except"
    /\ log' = Append(log, LogLine("error"))
    /\ stages' = Append(stages, "except")
    /\ pc' = "pf_finally"
    /\ UNCHANGED <<args, exit, file_no, wav_file, wav_file_path, total_duration,
                   srt_content, consumed, fs_tmp, fs_srt, calls, tmp_of, opened>>
    /\ UNCHANGED <<thread_vars, text_vars, yielded, saved_by>>

\* lines 60-63, then the return to the loop of main; an error of os.remove
\* leaves process_file and main
pf_finally ==
    /\ pc = "pf_finally"
    /\ IF wav_file # None /\ wav_file \in fs_tmp
       THEN \/ /\ fs_tmp' = fs_tmp \ {wav_file}
               /\ log' = Append(log, [kind |-> "deleted", no |-> file_no,
                                      file |-> wav_file])
               /\ file_no' = file_no + 1
               /\ pc' = "main_loop"
               /\ UNCHANGED exit
            \/ /\ exit' = "raised"
               /\ pc' = "exited"
               /\ UNCHANGED <<fs_tmp, log, file_no>>
       ELSE /\ file_no' = file_no + 1
            /\ pc' = "main_loop"
            /\ UNCHANGED <<fs_tmp, log, exit>>
    /\ stages' = Append(stages, "cleanup")
    /\ wav_file' = None
    /\ wav_file_path' = None
    /\ total_duration' = 0
    /\ srt_content' = <<>>
    /\ consumed' = <<>>
    /\ UNCHANGED <<args, fs_srt, calls, tmp_of, opened>>
    /\ UNCHANGED <<thread_vars, text_vars, yielded, saved_by>>

----------------------------------------------------------------------------
\* The text run: lines 96-99 applied to one raw segment text.

TextAlphabet == {"&", "#", "3", "9", ";", " ", "a", "U+FF01"}

\* three dots, full-width comma, ideographic full stop, full-width question
\* mark, full-width exclamation mark, 123
NoiseWithFullWidthExclamation ==
    <<".", ".", ".", "U+FF0C", "U+3002", "U+FF1F", "U+FF01", "1", "2", "3">>

\* the same with the ASCII exclamation mark
NoiseWithAsciiExclamation ==
    <<".", ".", ".", "U+FF0C", "U+3002", "U+FF1F", "!", "1", "2", "3">>

ACommaB == <<"a", ",", "b">>

ItsFineRaw ==
    <<"i", "t", "&", "#", "3", "9", ";", "s", "&", "#", "1", "6", "0", ";",
      "f", "i", "n", "e">>

\* hello, a space and a numeric entity at the end
HelloSpaceEntity ==
    <<"h", "e", "l", "l", "o", " ", "&", "#", "1", "6", "0", ";">>

\* a numeric entity, a space and hello
EntitySpaceHello ==
    <<"&", "#", "1", "6", "0", ";", " ", "h", "e", "l", "l", "o">>

RawTexts ==
    SeqsUpTo(TextAlphabet, MaxTextLen) \cup
    {NoiseWithFullWidthExclamation, NoiseWithAsciiExclamation, Hello, Dots,
     NiHao, ACommaB, ItsFineRaw, HelloSpaceEntity, EntitySpaceHello}

\* lines 96-99
filter_text ==
    /\ text_pc = "input"
    /\ text' = CleanText(raw_text)
    /\ accepted' = IsValidText(CleanText(raw_text))
    /\ text_pc' = "filtered"
    /\ UNCHANGED <<raw_text, pipeline_vars, thread_vars>>

----------------------------------------------------------------------------

\* the locals of a process_file call that has not begun
IdleFrame ==
    [pc |-> "unstarted", wav_file |-> None, wav_file_path |-> None]

IdlePipeline(start) ==
    /\ pc = start
    /\ exit = "running"
    /\ file_no = 0
    /\ wav_file = None
    /\ wav_file_path = None
    /\ total_duration = 0
    /\ srt_content = <<>>
    /\ consumed = <<>>
    /\ fs_tmp = {}
    /\ fs_srt = [q \in SrtPaths |-> NoFile]
    /\ log = <<>>
    /\ calls = <<>>
    /\ tmp_of = [k \in 1..MaxFiles |-> None]
    /\ opened = {}
    /\ yielded = 0
    /\ stages = <<>>
    /\ saved_by = [k \in 1..MaxFiles |-> <<>>]
    /\ threads = <<>>
    /\ frames = [k \in 1..MaxFiles |-> IdleFrame]

Init ==
    /\ args \in ArgLists
    /\ IdlePipeline("main_start")
    /\ raw_text = <<>>
    /\ text = <<>>
    /\ accepted = FALSE
    /\ text_pc = "off"

Next ==
    \/ main_check_args
    \/ main_loop
    \/ pf_model
    \/ cw_alloc
    \/ cw_ffmpeg
    \/ pf_transcribe
    \/ ws_loop
    \/ ws_write
    \/ pf_except
    \/ pf_finally

Spec == Init /\ [][Next]_vars

\* The single thread goes on as long as a step is possible: every collaborator
\* call returns or raises.
SpecFair == Init /\ [][Next]_vars /\ WF_vars(Next)

\* The text run: every bounded raw text, and the texts of the examples.
InitText ==
    /\ args = <<>>
    /\ IdlePipeline("off")
    /\ raw_text \in RawTexts
    /\ text = <<>>
    /\ accepted = FALSE
    /\ text_pc = "input"

NextText == filter_text

SpecText == InitText /\ [][NextText]_vars

----------------------------------------------------------------------------
\* The disabled alternative of main, lines 124-131: one thread per input
\* file runs process_file, and main joins the threads in the order it started
\* them. Each worker has its own locals in frames; the disk is shared. The
\* locals of write_srt end with write_srt, those of process_file with the
\* thread. The lines the workers hand to the logger are left out: no step
\* reads them.

Workers == 1..MaxFiles

\* what the sequential loop keeps and the alternative leaves alone
loop_vars == <<wav_file, wav_file_path, total_duration, srt_content, consumed,
               log, calls, tmp_of, opened, stages, saved_by>>

\* lines 90-100: srt_content after the loop has consumed segs
RECURSIVE srt_content_after(_)
srt_content_after(segs) ==
    IF segs = <<>> THEN <<>>
    ELSE append_if_valid(srt_content_after(SubSeq(segs, 1, Len(segs) - 1)),
                         Len(segs), segs[Len(segs)])

\* lines 90-100: the lists the loop can end with, by duration: one for each
\* sequence of segments it can consume without raising (with a duration of 0
\* that is the empty sequence only)
loop_results ==
    [d \in Durations |->
        {srt_content_after(segs) :
            segs \in {r \in SeqsUpTo(SegsFor(d), MaxThreadSegs) : d # 0 \/ r = <<>>}}]

\* the thread of the worker ends
EndThread(f, how) == [IdleFrame EXCEPT !.pc = how]

\* lines 113-119, before the threads are made
th_check_args ==
    /\ pc = "th_start"
    /\ IF usage_error(args)
       THEN /\ log' = Append(log, [kind |-> "usage"])
            /\ exit' = "sysexit1"
            /\ pc' = "exited"
            /\ UNCHANGED file_no
       ELSE /\ file_no' = 1
            /\ pc' = "th_spawn"
            /\ UNCHANGED <<log, exit>>
    /\ UNCHANGED <<args, wav_file, wav_file_path, total_duration, srt_content,
                   consumed, fs_tmp, fs_srt, calls, tmp_of, opened>>
    /\ UNCHANGED <<thread_vars, text_vars, yielded, stages, saved_by>>

\* lines 125-128: thread.start() and threads.append(thread) for the next file
th_spawn ==
    /\ pc = "th_spawn"
    /\ IF file_no <= Len(input_files(args))
       THEN /\ frames' = [frames EXCEPT ![file_no].pc = "pf_model"]
            /\ threads' = Append(threads, file_no)
            /\ file_no' = file_no + 1
            /\ UNCHANGED pc
       ELSE /\ file_no' = 1
            /\ pc' = "th_join"
            /\ UNCHANGED <<frames, threads>>
    /\ UNCHANGED <<args, exit, fs_tmp, fs_srt, yielded, loop_vars, text_vars>>

\* lines 130-131: thread.join() returns once that thread has ended, with or
\* without an exception; after the last join main returns
th_join ==
    /\ pc = "th_join"
    /\ IF file_no <= Len(threads)
       THEN /\ frames[threads[file_no]].pc \in {"done", "died"}
            /\ file_no' = file_no + 1
            /\ UNCHANGED <<pc, exit>>
       ELSE /\ exit' = "return"
            /\ pc' = "exited"
            /\ UNCHANGED file_no
    /\ UNCHANGED <<args, fs_tmp, fs_srt, yielded, loop_vars, thread_vars,
                   text_vars>>

\* lines 32-41 in a worker
t_model ==
    \E w \in Workers :
        /\ frames[w].pc = "pf_model"
        /\ \E loaded \in BOOLEAN :
              frames' = [frames EXCEPT ![w].pc =
                            IF loaded THEN "cw_alloc" ELSE "pf_except"]
        /\ UNCHANGED <<args, pc, exit, file_no, fs_tmp, fs_srt, yielded,
                       loop_vars, threads, text_vars>>

\* lines 68-69 in a worker
t_alloc ==
    \E w \in Workers :
        /\ frames[w].pc = "cw_alloc"
        /\ LET t == temp_path(fs_tmp, input_files(args)[w])
           IN  /\ fs_tmp' = fs_tmp \cup {t}
               /\ frames' = [frames EXCEPT ![w] =
                      [@ EXCEPT !.pc = "cw_ffmpeg", !.wav_file_path = t]]
        /\ UNCHANGED <<args, pc, exit, file_no, fs_srt, yielded, loop_vars,
                       threads, text_vars>>

\* lines 80-84 and the assignment of line 43 in a worker
t_ffmpeg ==
    \E w \in Workers :
        /\ frames[w].pc = "cw_ffmpeg"
        /\ \E rs \in {"ok", "error"} :
              frames' = [frames EXCEPT ![w] =
                  IF ffmpeg_failed(rs)
                  THEN [@ EXCEPT !.pc = "pf_except", !.wav_file_path = None]
                  ELSE [@ EXCEPT !.pc = "pf_transcribe",
                                 !.wav_file = frames[w].wav_file_path,
                                 !.wav_file_path = None]]
        /\ UNCHANGED <<args, pc, exit, file_no, fs_tmp, fs_srt, yielded,
                       loop_vars, threads, text_vars>>

\* lines 45-55 in a worker; a wav file that is not on disk cannot be read
t_transcribe ==
    \E w \in Workers :
        /\ frames[w].pc = "pf_transcribe"
        /\ \/ frames' = [frames EXCEPT ![w].pc = "pf_except"]
           \/ /\ frames[w].wav_file \in fs_tmp
              /\ frames' = [frames EXCEPT ![w].pc = "ws_loop"]
        /\ UNCHANGED <<args, pc, exit, file_no, fs_tmp, fs_srt, yielded,
                       loop_vars, threads, text_vars>>

\* lines 89-109 in a worker: write_srt from the first turn of its loop to its
\* end. The loop touches nothing the workers share, so the turns are taken
\* in one step; the wav file is in use until this step is taken. The loop
\* raises (the sequence does, or the division of line 91), or it ends with
\* one of the lists of loop_results for the duration that line 89 reads from
\* the result of transcribe, and the list is written as in ws_write.
t_write_srt ==
    \E w \in Workers :
        /\ frames[w].pc = "ws_loop"
        /\ LET q == srt_path(input_files(args)[w])
           IN  \/ /\ frames' = [frames EXCEPT ![w].pc = "pf_except"]
                  /\ UNCHANGED fs_srt
               \/ \E d \in Durations : \E content \in loop_results[d] :
                     IF has_content(content)
                     THEN \/ /\ fs_srt' = [fs_srt EXCEPT ![q] = FileOf(content)]
                             /\ frames' = [frames EXCEPT ![w].pc = "pf_finally"]
                          \/ \E k \in 0..(Len(content) - 1) :
                                /\ fs_srt' = [fs_srt EXCEPT ![q] =
                                                 FileOf(SubSeq(content, 1, k))]
                                /\ frames' = [frames EXCEPT ![w].pc = "pf_except"]
                     ELSE /\ frames' = [frames EXCEPT ![w].pc = "pf_finally"]
                          /\ UNCHANGED fs_srt
        /\ UNCHANGED <<args, pc, exit, file_no, fs_tmp, yielded, loop_vars,
                       threads, text_vars>>

\* lines 57-58 in a worker
t_except ==
    \E w \in Workers :
        /\ frames[w].pc = "pf_except"
        /\ frames' = [frames EXCEPT ![w].pc = "pf_finally"]
        /\ UNCHANGED <<args, pc, exit, file_no, fs_tmp, fs_srt, yielded,
                       loop_vars, threads, text_vars>>

\* lines 60-63 in a worker; an error of os.remove ends that thread only
t_finally ==
    \E w \in Workers :
        /\ frames[w].pc = "pf_finally"
        /\ IF frames[w].wav_file # None /\ frames[w].wav_file \in fs_tmp
           THEN \/ /\ fs_tmp' = fs_tmp \ {frames[w].wav_file}
                   /\ frames' = [frames EXCEPT ![w] = EndThread(@, "done")]
                \/ /\ frames' = [frames EXCEPT ![w] = EndThread(@, "died")]
                   /\ UNCHANGED fs_tmp
           ELSE /\ frames' = [frames EXCEPT ![w] = EndThread(@, "done")]
                /\ UNCHANGED fs_tmp
        /\ UNCHANGED <<args, pc, exit, file_no, fs_srt, yielded, loop_vars,
                       threads, text_vars>>

\* The workers are alike and nothing depends on the place of a file in the
\* list, so the batches of the alternative list their files in one order:
\* a.mp3 before a.mp4 before b.mp3.
PathOrder ==
    <<[stem |-> "a", ext |-> "mp3"],
      [stem |-> "a", ext |-> "mp4"],
      [stem |-> "b", ext |-> "mp3"]>>

PathRank(p) == CHOOSE i \in 1..Len(PathOrder) : PathOrder[i] = p

ThreadArgLists ==
    {a \in ArgLists :
        \A m, n \in 3..Len(a) : m < n => PathRank(a[m]) < PathRank(a[n])}

InitThreads ==
    /\ args \in ThreadArgLists
    /\ IdlePipeline("th_start")
    /\ raw_text = <<>>
    /\ text = <<>>
    /\ accepted = FALSE
    /\ text_pc = "off"

NextThreads ==
    \/ th_check_args
    \/ th_spawn
    \/ th_join
    \/ t_model
    \/ t_alloc
    \/ t_ffmpeg
    \/ t_transcribe
    \/ t_write_srt
    \/ t_except
    \/ t_finally

SpecThreads == InitThreads /\ [][NextThreads]_vars

----------------------------------------------------------------------------
\* Properties.

NumFiles == Len(input_files(args))

Range(q) == {q[j] : j \in 1..Len(q)}

\* main has ended, one way or another
Ended == pc = "exited"

\* the segments of the current call that line 99 accepts
ValidPositions(segs) ==
    {j \in 1..Len(segs) : IsValidText(CleanText(segs[j].text))}

ErrorLogged(k) ==
    \E j \in 1..Len(log) : log[j].kind = "error" /\ log[j].no = k

\* C1: when process_file has ended for a file, the temporary file allocated
\* for that file is no longer on disk. Stated at the points where the call
\* has just ended: back in the loop of main, or main ended.
C1_TempFileRemoved ==
    (pc \in {"main_loop", "exited"} /\ calls # <<>>) =>
        LET k == calls[Len(calls)]
        IN  tmp_of[k] # None => tmp_of[k] \notin fs_tmp

\* C2: once main has ended on a well-formed argument list, process_file has
\* been attempted on every input file, whatever failed before.
C2_LaterFilesAttempted ==
    (Ended /\ Len(args) >= 3) => \A k \in 1..NumFiles : k \in Range(calls)

\* C3 as amended: the usage error is raised exactly for fewer than three
\* arguments (no model, no language or no input file), with the usage
\* message and a non-zero exit, and before any file is processed or any
\* resource allocated.
C3_UsageErrorBelowThreeArgs ==
    /\ pc # "main_start" => (exit = "sysexit1" <=> Len(args) < 3)
    /\ exit = "sysexit1" =>
          /\ log = <<[kind |-> "usage"]>>
          /\ calls = <<>>
          /\ fs_tmp = {}
          /\ \A q \in SrtPaths : fs_srt[q] = NoFile
    /\ Len(args) >= 3 => \A j \in 1..Len(log) : log[j].kind # "usage"

\* C3 as stated: the usage error is raised exactly for fewer than two
\* arguments.
C3_UsageErrorBelowTwoArgs ==
    pc # "main_start" => (exit = "sysexit1" <=> Len(args) < 2)

\* C3 witness: model and language alone end in the usage error.
C3_Witness == exit = "sysexit1" /\ Len(args) = 2 /\ log # <<>>

\* C4: for a well-formed argument list main ends the same way whatever the
\* collaborators did: by a normal return.
C4_SameTermination ==
    (Ended /\ Len(args) >= 3) => exit = "return"

\* C5: a file for which an error was caught and logged has nothing written
\* at its subtitle path: its call never opened the path for writing.
C5_ErrorMeansNothingWritten ==
    \A k \in 1..NumFiles : ErrorLogged(k) => k \notin opened

\* C6: process_file is called once per input, in list order, one call at a
\* time, and when main has ended every input has had its call.
C6_OncePerFileInOrder ==
    /\ \A j \in 1..Len(calls) : calls[j] = j
    /\ pc \notin {"main_start", "main_loop", "exited"} =>
          calls # <<>> /\ calls[Len(calls)] = file_no
    /\ (Ended /\ Len(args) >= 3) => Len(calls) = NumFiles

\* C7: the blocks carry the indices 1..k in order, k being the number of
\* accepted segments so far, in the list being built and in every file
\* written; a rejected segment takes no index.
C7_IndicesContiguous ==
    /\ \A j \in 1..Len(srt_content) : srt_content[j].index = j
    /\ total_duration # 0 =>
          Len(srt_content) = Cardinality(ValidPositions(consumed))
    /\ \A q \in SrtPaths :
          \A j \in 1..Len(fs_srt[q].blocks) : fs_srt[q].blocks[j].index = j

\* C7 witness: three segments, the second rejected, written as blocks 1, 2.
C7_Witness ==
    /\ pc = "pf_finally"
    /\ Len(consumed) = 3
    /\ ValidPositions(consumed) = {1, 3}
    /\ fs_srt[srt_path(input_files(args)[file_no])] = FileOf(srt_content)
    /\ Len(srt_content) = 2

\* C8: when the sequence is exhausted and no segment was accepted, the step
\* that ends write_srt touches no subtitle file and logs the no-valid-segments
\* line for the file.
C8_NoValidSegments ==
    [][(pc = "ws_write" /\ ValidPositions(consumed) = {}) =>
          /\ fs_srt' = fs_srt
          /\ opened' = opened
          /\ log' = Append(log, [kind |-> "no_valid", no |-> file_no,
                                 file |-> input_files(args)[file_no]])
          /\ pc' = "pf_finally"]_vars

\* C8 witness: a file whose segments were all rejected, no file written.
C8_Witness ==
    /\ pc = "pf_finally"
    /\ consumed # <<>>
    /\ ValidPositions(consumed) = {}
    /\ log[Len(log)].kind = "no_valid"
    /\ \A q \in SrtPaths : fs_srt[q] = NoFile

\* the characters the pattern lists, with whitespace and digits
ListedNoise == ClassLiterals \cup Whitespace \cup Digits

\* C9 as amended: a cleaned text is rejected exactly when all its characters
\* are among those the pattern lists (the listed CJK and ASCII marks,
\* whitespace, digits); the full-width exclamation mark is not listed, so
\* the noise example with it is accepted and the one with the ASCII mark is
\* rejected; hello, ni hao and a,b are accepted.
C9_RejectsExactlyListedNoise ==
    text_pc = "filtered" =>
        /\ accepted <=> \E j \in 1..Len(text) : text[j] \notin ListedNoise
        /\ raw_text = NoiseWithAsciiExclamation => ~accepted
        /\ raw_text = NoiseWithFullWidthExclamation => accepted
        /\ raw_text \in {Hello, NiHao, ACommaB} => accepted

\* C9 as stated: the noise set holds the full-width punctuation, the
\* full-width exclamation mark of the example included.
C9_RejectsAllPunctuation ==
    text_pc = "filtered" =>
        /\ accepted <=>
              \E j \in 1..Len(text) : text[j] \notin (ListedNoise \cup {"U+FF01"})
        /\ raw_text = NoiseWithFullWidthExclamation => ~accepted

\* C9 witness: the example with the full-width exclamation mark went through
\* the filter and was accepted.
C9_Witness ==
    text_pc = "filtered" /\ raw_text = NoiseWithFullWidthExclamation /\ accepted

ItsFineJoined == <<"i", "t", "'", "s", "f", "i", "n", "e">>
ItsFineSpaced == <<"i", "t", "'", "s", " ", "f", "i", "n", "e">>

\* C10 as amended: the raw text it&#39;s&#160;fine is cleaned to the text
\* with the apostrophe and with the second entity removed, the two words
\* joined.
C10_EntityExampleJoined ==
    (text_pc = "filtered" /\ raw_text = ItsFineRaw) => text = ItsFineJoined

\* C10 as stated: the cleaned text keeps a space between the two words.
C10_EntityExampleSpaced ==
    (text_pc = "filtered" /\ raw_text = ItsFineRaw) => text = ItsFineSpaced

\* C10 witness: the example has been cleaned and accepted.
C10_Witness ==
    text_pc = "filtered" /\ raw_text = ItsFineRaw /\ accepted /\ Len(text) = 8

\* C11: the text tested and emitted is the raw text with the encoded
\* apostrophe replaced, the numeric entities removed and only then the
\* whitespace trimmed; so it neither begins nor ends with whitespace.
C11_CleanThenTrim ==
    text_pc = "filtered" =>
        /\ text = Strip(SubEntities(ReplaceApos(raw_text)))
        /\ text # <<>> => text[1] \notin Whitespace /\ text[Len(text)] \notin Whitespace

\* the subtitle path of the file being processed
CurrentSrt == srt_path(input_files(args)[file_no])

\* the segments of segs that line 99 accepts, in order
ValidSegs(segs) ==
    SelectSeq(segs, LAMBDA sg : IsValidText(CleanText(sg.text)))

\* C12: a call touches its subtitle file in one step only, the one that ends
\* write_srt after the sequence is exhausted, and at most once; when that
\* step succeeds the file holds the whole list of blocks. While segments are
\* consumed nothing of the call is on disk.
C12_WrittenOnceAfterExhaustion ==
    [][(fs_srt' # fs_srt \/ opened' # opened) =>
          /\ pc = "ws_write"
          /\ file_no \notin opened
          /\ opened' = opened \cup {file_no}
          /\ \A q \in SrtPaths \ {CurrentSrt} : fs_srt'[q] = fs_srt[q]
          /\ pc' \in {"pf_finally", "pf_except"}
          /\ pc' = "pf_finally" =>
                fs_srt'[CurrentSrt] = [exists |-> TRUE, blocks |-> srt_content]]_vars

\* C12 witness: a file of two blocks was saved by the step ending write_srt.
C12_Witness ==
    /\ pc = "pf_finally"
    /\ log[Len(log)].kind = "saved"
    /\ Len(srt_content) = 2
    /\ fs_srt[CurrentSrt].blocks = srt_content
    /\ file_no \in opened

DigitValue(c) == CHOOSE d \in 0..9 : ToString(d) = c

\* the milliseconds a timestamp HH:MM:SS,mmm stands for
TimeValue(ts) ==
    (DigitValue(ts[1]) * 10 + DigitValue(ts[2])) * 3600000
    + (DigitValue(ts[4]) * 10 + DigitValue(ts[5])) * 60000
    + (DigitValue(ts[7]) * 10 + DigitValue(ts[8])) * 1000
    + DigitValue(ts[10]) * 100 + DigitValue(ts[11]) * 10 + DigitValue(ts[12])

WellFormedTime(ts) ==
    /\ Len(ts) = 12
    /\ ts[3] = ":" /\ ts[6] = ":" /\ ts[9] = ","
    /\ \A j \in {1, 2, 4, 5, 7, 8, 10, 11, 12} : ts[j] \in Digits

\* ts is the time t (in ticks) cut down to whole milliseconds
TruncatedTime(ts, t) ==
    /\ WellFormedTime(ts)
    /\ TimeValue(ts) * TicksPerSecond <= t * 1000
    /\ t * 1000 < (TimeValue(ts) + 1) * TicksPerSecond

Time_00_00_01_234 == <<"0", "0", ":", "0", "0", ":", "0", "1", ",", "2", "3", "4">>
Time_00_00_02_500 == <<"0", "0", ":", "0", "0", ":", "0", "2", ",", "5", "0", "0">>

\* C13: the timestamps of every block are the start and the end of its
\* segment cut down to whole milliseconds and written HH:MM:SS,mmm with three
\* millisecond digits; start 1.2345 s and end 2.5 s give 00:00:01,234 and
\* 00:00:02,500.
C13_TimestampsTruncated ==
    total_duration # 0 =>
        /\ Len(srt_content) = Len(ValidSegs(consumed))
        /\ \A j \in 1..Len(srt_content) :
              LET sg == ValidSegs(consumed)[j]
              IN  /\ TruncatedTime(srt_content[j].startTime, sg.start)
                  /\ TruncatedTime(srt_content[j].endTime, sg.end)
                  /\ (sg.start = 12345 /\ sg.end = 25000) =>
                        /\ srt_content[j].startTime = Time_00_00_01_234
                        /\ srt_content[j].endTime = Time_00_00_02_500

\* C13 witness: a block of the segment from 1.2345 s to 2.5 s is in the list.
C13_Witness ==
    \E j \in 1..Len(srt_content) :
        /\ ValidSegs(consumed)[j].start = 12345
        /\ srt_content[j].startTime = Time_00_00_01_234
        /\ srt_content[j].endTime = Time_00_00_02_500

\* number of cleanup steps of the current (or last) call
Cleanups == Len(SelectSeq(stages, LAMBDA m : m = "cleanup"))

\* C14: every call of process_file leads to its return to the loop of main,
\* and a call that has ended ran its cleanup step exactly once.
C14_EveryCallReturns ==
    /\ \A k \in 1..MaxFiles : (Len(calls) >= k) ~> (file_no > k)
    /\ []((pc \in {"main_loop", "exited"} /\ calls # <<>>) => Cleanups = 1)

\* the position of the current (or last) call
LastCall == calls[Len(calls)]

\* the progress records logged for position k, in order
ProgressOf(k) ==
    SelectSeq(log, LAMBDA r : r.kind = "progress" /\ r.no = k)

\* C15: a call normalizes, then transcribes, then writes. The recognition
\* step is taken only after ffmpeg reported ok, with the temp file on disk;
\* after a failed normalization the call goes to the handler and the cleanup
\* with no recognition step, no progress record and no subtitle file touched.
C15_NormalizeTranscribeWrite ==
    calls # <<>> =>
        /\ "transcribe" \in Range(stages) =>
              SubSeq(stages, 1, 3) = <<"start", "normalized", "transcribe">>
        /\ pc \in {"pf_transcribe", "ws_loop", "ws_write"} =>
              /\ stages[Len(stages)] \in {"normalized", "transcribe"}
              /\ wav_file # None /\ wav_file \in fs_tmp
        /\ LastCall \in opened => "transcribe" \in Range(stages)
        /\ "normalize_failed" \in Range(stages) =>
              /\ pc \in {"pf_except", "pf_finally", "main_loop", "exited"}
              /\ "transcribe" \notin Range(stages)
              /\ ProgressOf(LastCall) = <<>>
              /\ LastCall \notin opened

\* C15 witness: a call whose normalization failed has gone through the
\* handler and the cleanup.
C15_Witness ==
    /\ pc = "main_loop"
    /\ stages = <<"start", "normalize_failed", "except", "cleanup">>

\* a call of process_file is under way
InCall == pc \notin {"main_start", "main_loop", "exited", "off"}

\* C16: the segments obey 0 <= start <= end <= duration, and for each
\* segment the sequence has yielded there is one progress record of the
\* file, in the order of the segments, with the fraction end / duration.
C16_ProgressPerSegment ==
    InCall =>
        /\ \A j \in 1..Len(consumed) :
              /\ 0 <= consumed[j].start
              /\ consumed[j].start <= consumed[j].end
              /\ consumed[j].end <= total_duration
        /\ Len(ProgressOf(file_no)) = Len(consumed)
        /\ \A j \in 1..Len(consumed) :
              ProgressOf(file_no)[j].progress = <<consumed[j].end, total_duration>>

\* the blocks of the accepted segments of segs: one per segment, in the order
\* of segs, numbered from 1
BlocksOf(segs) ==
    [j \in 1..Len(ValidSegs(segs)) |->
        [index |-> j,
         startTime |-> ms_to_time_string(to_ms(ValidSegs(segs)[j].start)),
         endTime |-> ms_to_time_string(to_ms(ValidSegs(segs)[j].end)),
         text |-> CleanText(ValidSegs(segs)[j].text)]]

\* the last record of the log is the saved line of the current file
JustSaved ==
    /\ pc = "pf_finally"
    /\ log # <<>>
    /\ log[Len(log)].kind = "saved"
    /\ log[Len(log)].no = file_no

\* C17: the list of blocks is at every turn of the loop the blocks of the
\* accepted segments consumed so far, each once and in the order of the
\* sequence, and the file that was just saved holds exactly these blocks.
C17_BlocksAreAcceptedSegments ==
    /\ pc \in {"ws_loop", "ws_write"} => srt_content = BlocksOf(consumed)
    /\ JustSaved =>
          /\ srt_content = BlocksOf(consumed)
          /\ fs_srt[CurrentSrt] = [exists |-> TRUE, blocks |-> BlocksOf(consumed)]

C17_Witness ==
    /\ JustSaved
    /\ Len(consumed) = 3
    /\ consumed[2].text = Dots
    /\ Len(fs_srt[CurrentSrt].blocks) = 2
    /\ fs_srt[CurrentSrt].blocks[1].text = Hello
    /\ fs_srt[CurrentSrt].blocks[2].text = NiHao

\* the places in the log of the records of position k whose kind is in kinds
PlacesOf(k, kinds) ==
    {j \in 1..Len(log) : log[j].kind \in kinds /\ log[j].no = k}

OutcomeKinds == {"saved", "no_valid", "error"}

\* C18: once main has ended on a well-formed argument list, the log holds
\* for every file of the batch one start line and, after it, exactly one
\* outcome line: saved, no valid segments, or error.
C18_StartThenOneOutcome ==
    (Ended /\ ~usage_error(args)) =>
        \A k \in 1..NumFiles :
            /\ Cardinality(PlacesOf(k, {"processing"})) = 1
            /\ Cardinality(PlacesOf(k, OutcomeKinds)) = 1
            /\ \A i \in PlacesOf(k, {"processing"}), j \in PlacesOf(k, OutcomeKinds) :
                  i < j

\* the temp path worker w holds: the one convert_to_wav works with, then the
\* one process_file keeps until its cleanup; None when it holds none
HeldPath(w) ==
    IF frames[w].wav_file_path # None THEN frames[w].wav_file_path
    ELSE frames[w].wav_file

\* C19: under the alternative with one thread per file, no two workers hold
\* the same temp path, also when their inputs have the same basename; the
\* temp file a worker holds is on disk until that worker itself removes it;
\* and main has returned only when every worker has ended.
C19_WorkersKeepTheirOwnTemp ==
    /\ \A v, w \in Workers :
          (v # w /\ HeldPath(v) # None /\ HeldPath(w) # None) =>
              HeldPath(v) # HeldPath(w)
    /\ \A w \in Workers : HeldPath(w) # None => HeldPath(w) \in fs_tmp
    /\ (pc = "exited" /\ exit = "return") =>
          \A w \in 1..NumFiles : frames[w].pc \in {"done", "died"}

\* a.mp3 and a.mp4 are transcribed at the same time from two temp files
C19_Witness ==
    /\ SubSeq(args, 3, Len(args)) =
           <<[stem |-> "a", ext |-> "mp3"], [stem |-> "a", ext |-> "mp4"]>>
    /\ frames[1].pc = "ws_loop"
    /\ frames[2].pc = "ws_loop"
    /\ frames[1].wav_file # frames[2].wav_file
    /\ {frames[1].wav_file, frames[2].wav_file} \subseteq fs_tmp

\* the subtitle path of the file at position k
SrtOf(k) == srt_path(input_files(args)[k])

\* C20: after the batch has ended, the subtitle file of every input whose
\* call saved a list of blocks holds exactly that list, whatever the other
\* inputs of the batch are.
C20_EachInputKeepsItsSubtitles ==
    Ended =>
        \A k \in 1..NumFiles :
            saved_by[k] # <<>> => fs_srt[SrtOf(k)] = FileOf(saved_by[k])

====
